---- MODULE Spec2Model ----
(***************************************************************************)
(* Field Hockey Scoreboard Simulator: the HockeyMatch state machine of     *)
(* main.cpp (Team, MatchEvent, HockeyMatch) driven through its public      *)
(* interface.  Strings are TLA+ strings, built by concatenation exactly as *)
(* the code builds its event descriptions.                                 *)
(*                                                                         *)
(* Three specifications share the variables:                               *)
(*   Spec      any caller of the HockeyMatch interface                     *)
(*   LoopSpec  main(): the menu-driven command loop                        *)
(*   StatsSpec Team::statsLine applied to a Team with any counters         *)
(*   LoopFairSpec LoopSpec with the program's own steps taken eventually     *)
(*   EarlySpec any caller of the HockeyMatch of the earlier variants       *)
(***************************************************************************)
EXTENDS Integers, Sequences, FiniteSets, TLC

VARIABLES home_team_, away_team_, current_quarter_, event_log_, calls, rets,
          pc, match_in_progress, choice, side, read_failed, eof,
          stats_team, stats_line

matchVars == <<home_team_, away_team_, current_quarter_, event_log_>>

\* main(): position, locals and the state of std::cin
mainVars == <<pc, match_in_progress, choice, side, read_failed, eof>>

\* the Team statsLine is applied to and the string it returned
statsVars == <<stats_team, stats_line>>

vars == <<home_team_, away_team_, current_quarter_, event_log_, calls, rets,
          pc, match_in_progress, choice, side, read_failed, eof,
          stats_team, stats_line>>

----------------------------------------------------------------------------
(* Bounds of the exploration *)

\* number of goal / card / penalty-corner calls the driver makes
MaxTeamActions == 2

\* number of nextQuarter calls the driver makes
MaxQuarterCalls == 5

\* largest value of a counter of the Team statsLine is applied to
MaxCount == 3

\* number of team actions the driver makes when all of them come before the
\* first nextQuarter call (the scenario of a whole match played in quarter 1)
MaxQ1Actions == 3

----------------------------------------------------------------------------
(* Program constants and types *)

TOTAL_QUARTERS == 4

\* enum class CardType : unsigned char { Green = 0, Yellow = 1, Red = 2, Count }
CardType == {"Green", "Yellow", "Red", "Count"}

\* the (home_name, away_name) pairs given to the constructor
NamePairs == {<<"Hawks", "Eagles">>, <<"Hawks", "Hawks">>,
              <<"Green card - Z", "Z goal!">>}

cardName(type) ==
    CASE type = "Green"  -> "Green"
      [] type = "Yellow" -> "Yellow"
      [] type = "Red"    -> "Red"
      [] OTHER           -> "Unknown"

\* std::to_string(int)
to_string(n) == ToString(n)

----------------------------------------------------------------------------
(* Team *)

Team(name) ==
    [name_ |-> name, goals_ |-> 0, green_ |-> 0, yellow_ |-> 0, red_ |-> 0,
     penalty_corners_ |-> 0]

scoreGoal_decrement(t) == [t EXCEPT !.goals_ = @ - 1]

scoreGoal(t) == [t EXCEPT !.goals_ = @ + 1]

awardPenaltyCorner(t) == [t EXCEPT !.penalty_corners_ = @ + 1]

\* the cases fall through (no break)
receiveCard_fallthrough(t, type) ==
    CASE type = "Green"  -> [t EXCEPT !.green_ = @ + 1, !.yellow_ = @ + 1,
                                      !.red_ = @ + 1]
      [] type = "Yellow" -> [t EXCEPT !.yellow_ = @ + 1, !.red_ = @ + 1]
      [] type = "Red"    -> [t EXCEPT !.red_ = @ + 1]
      [] type = "Count"  -> t

receiveCard(t, type) ==
    CASE type = "Green"  -> [t EXCEPT !.green_ = @ + 1]
      [] type = "Yellow" -> [t EXCEPT !.yellow_ = @ + 1]
      [] type = "Red"    -> [t EXCEPT !.red_ = @ + 1]
      [] type = "Count"  -> t

\* operator<< of std::ostream for an int: its decimal digits
insert_int(n) == ToString(n)

\* yellow and green exchanged
statsLine_yellowFirst(t) ==
    insert_int(t.yellow_) \o "G " \o insert_int(t.green_) \o "Y "
       \o insert_int(t.red_) \o "R " \o insert_int(t.penalty_corners_) \o "PC"

statsLine(t) ==
    insert_int(t.green_) \o "G " \o insert_int(t.yellow_) \o "Y "
       \o insert_int(t.red_) \o "R " \o insert_int(t.penalty_corners_) \o "PC"

----------------------------------------------------------------------------
(* MatchEvent *)

MatchEvent(quarter, description) ==
    [quarter_ |-> quarter, description_ |-> description]

----------------------------------------------------------------------------
(* HockeyMatch: the object is the record m of its four members *)

addEvent_front(m, event_description) ==
    [m EXCEPT !.event_log_ =
        <<MatchEvent(m.current_quarter_, event_description)>> \o @]

addEvent(m, event_description) ==
    [m EXCEPT !.event_log_ =
        Append(@, MatchEvent(m.current_quarter_, event_description))]

\* team is "home_team_" or "away_team_": the Team& the private helpers take
scoreGoalFor_twice(m, team) ==
    LET m1 == [m EXCEPT ![team] = scoreGoal(scoreGoal(@))]
    IN  addEvent(m1, m1[team].name_ \o " goal!")

scoreGoalFor(m, team) ==
    LET m1 == [m EXCEPT ![team] = scoreGoal(@)]
    IN  addEvent(m1, m1[team].name_ \o " goal!")

\* the event logged without the card being counted
showCardFor_notCounted(m, team, type) ==
    addEvent(m, cardName(type) \o " card - " \o m[team].name_)

showCardFor(m, team, type) ==
    LET m1 == [m EXCEPT ![team] = receiveCard(@, type)]
    IN  addEvent(m1, cardName(type) \o " card - " \o m1[team].name_)

\* the action rejected once the End of Q4 marker has been logged
awardPenaltyCornerFor_rejecting(m, team) ==
    IF \E i \in 1..Len(m.event_log_) :
          m.event_log_[i].description_ = "=== End of Q4 ==="
    THEN m
    ELSE LET m1 == [m EXCEPT ![team] = awardPenaltyCorner(@)]
         IN  addEvent(m1, "Penalty corner - " \o m1[team].name_)

\* the counter incremented and no event logged
awardPenaltyCornerFor_noEvent(m, team) ==
    [m EXCEPT ![team] = awardPenaltyCorner(@)]

awardPenaltyCornerFor(m, team) ==
    LET m1 == [m EXCEPT ![team] = awardPenaltyCorner(@)]
    IN  addEvent(m1, "Penalty corner - " \o m1[team].name_)

HockeyMatch_silent(home_name, away_name) ==
    [home_team_ |-> Team(home_name), away_team_ |-> Team(away_name),
     current_quarter_ |-> 1, event_log_ |-> <<>>]

HockeyMatch(home_name, away_name) ==
    addEvent([home_team_ |-> Team(home_name), away_team_ |-> Team(away_name),
              current_quarter_ |-> 1, event_log_ |-> <<>>],
             "=== Start of Q1 ===")

goalForHome(m) == scoreGoalFor(m, "home_team_")
goalForAway_wrongSide(m) == scoreGoalFor(m, "home_team_")
goalForAway(m) == scoreGoalFor(m, "away_team_")
cardForHome(m, type) == showCardFor(m, "home_team_", type)
cardForAway(m, type) == showCardFor(m, "away_team_", type)
penaltyCornerForHome(m) == awardPenaltyCornerFor(m, "home_team_")
penaltyCornerForAway(m) == awardPenaltyCornerFor(m, "away_team_")

\* `<=` for `<` in the second test: a Start of Q5 and a fourth true
nextQuarter_lessEqual(m) ==
    IF m.current_quarter_ > TOTAL_QUARTERS
    THEN [match |-> m, result |-> FALSE]
    ELSE LET m1 == addEvent(m, "=== End of Q" \o to_string(m.current_quarter_)
                                \o " ===")
         IN  IF m1.current_quarter_ <= TOTAL_QUARTERS
             THEN LET m2 == [m1 EXCEPT !.current_quarter_ = @ + 1]
                      m3 == addEvent(m2, "=== Start of Q"
                                \o to_string(m2.current_quarter_) \o " ===")
                  IN  [match |-> m3, result |-> TRUE]
             ELSE [match |-> m1, result |-> FALSE]

\* the quarter is also incremented when quarter 4 ends
nextQuarter_sentinel(m) ==
    IF m.current_quarter_ > TOTAL_QUARTERS
    THEN [match |-> m, result |-> FALSE]
    ELSE LET m1 == addEvent(m, "=== End of Q" \o to_string(m.current_quarter_)
                                \o " ===")
             m2 == [m1 EXCEPT !.current_quarter_ = @ + 1]
         IN  IF m1.current_quarter_ < TOTAL_QUARTERS
             THEN [match |-> addEvent(m2, "=== Start of Q"
                                \o to_string(m2.current_quarter_) \o " ==="),
                   result |-> TRUE]
             ELSE [match |-> m2, result |-> FALSE]

\* the increment made before the End marker is logged
nextQuarter_incrementFirst(m) ==
    IF m.current_quarter_ > TOTAL_QUARTERS
    THEN [match |-> m, result |-> FALSE]
    ELSE IF m.current_quarter_ < TOTAL_QUARTERS
         THEN LET m1 == [m EXCEPT !.current_quarter_ = @ + 1]
                  m2 == addEvent(m1, "=== End of Q"
                            \o to_string(m1.current_quarter_ - 1) \o " ===")
                  m3 == addEvent(m2, "=== Start of Q"
                            \o to_string(m2.current_quarter_) \o " ===")
              IN  [match |-> m3, result |-> TRUE]
         ELSE [match |-> addEvent(m, "=== End of Q"
                            \o to_string(m.current_quarter_) \o " ==="),
               result |-> FALSE]

\* the End marker logged only when the match continues
nextQuarter_noLastEnd(m) ==
    IF m.current_quarter_ < TOTAL_QUARTERS
    THEN LET m1 == addEvent(m, "=== End of Q" \o to_string(m.current_quarter_)
                                \o " ===")
             m2 == [m1 EXCEPT !.current_quarter_ = @ + 1]
             m3 == addEvent(m2, "=== Start of Q"
                                \o to_string(m2.current_quarter_) \o " ===")
         IN  [match |-> m3, result |-> TRUE]
    ELSE [match |-> m, result |-> FALSE]

\* the Start marker logged before the End marker
nextQuarter_startFirst(m) ==
    IF m.current_quarter_ > TOTAL_QUARTERS
    THEN [match |-> m, result |-> FALSE]
    ELSE IF m.current_quarter_ < TOTAL_QUARTERS
         THEN LET m1 == [m EXCEPT !.current_quarter_ = @ + 1]
                  m2 == addEvent(m1, "=== Start of Q"
                            \o to_string(m1.current_quarter_) \o " ===")
                  m3 == [m2 EXCEPT !.event_log_ =
                            Append(@, MatchEvent(m.current_quarter_,
                               "=== End of Q" \o to_string(m.current_quarter_)
                                  \o " ==="))]
              IN  [match |-> m3, result |-> TRUE]
         ELSE [match |-> addEvent(m, "=== End of Q"
                            \o to_string(m.current_quarter_) \o " ==="),
               result |-> FALSE]

\* nextQuarter returns the object after the call and the bool it returns
nextQuarter(m) ==
    IF m.current_quarter_ > TOTAL_QUARTERS
    THEN [match |-> m, result |-> FALSE]
    ELSE LET m1 == addEvent(m, "=== End of Q" \o to_string(m.current_quarter_)
                                \o " ===")
         IN  IF m1.current_quarter_ < TOTAL_QUARTERS
             THEN LET m2 == [m1 EXCEPT !.current_quarter_ = @ + 1]
                      m3 == addEvent(m2, "=== Start of Q"
                                \o to_string(m2.current_quarter_) \o " ===")
                  IN  [match |-> m3, result |-> TRUE]
             ELSE [match |-> m1, result |-> FALSE]

----------------------------------------------------------------------------
(* The state machine: one HockeyMatch object and the caller's record of    *)
(* what it invoked (calls) and of what nextQuarter returned (rets)         *)

Match ==
    [home_team_ |-> home_team_, away_team_ |-> away_team_,
     current_quarter_ |-> current_quarter_, event_log_ |-> event_log_]

SetMatch(m) ==
    /\ home_team_' = m.home_team_
    /\ away_team_' = m.away_team_
    /\ current_quarter_' = m.current_quarter_
    /\ event_log_' = m.event_log_

Call(op, type) == [op |-> op, type |-> type]

TeamOps == {"goalForHome", "goalForAway", "cardForHome", "cardForAway",
            "penaltyCornerForHome", "penaltyCornerForAway"}

TeamCalls == SelectSeq(calls, LAMBDA c : c.op \in TeamOps)

CanAct ==
    Len(TeamCalls) < (IF rets = <<>> /\ MaxQ1Actions > MaxTeamActions
                      THEN MaxQ1Actions ELSE MaxTeamActions)

Init ==
    /\ \E p \in NamePairs :
          LET m == HockeyMatch(p[1], p[2])
          IN  /\ home_team_ = m.home_team_
              /\ away_team_ = m.away_team_
              /\ current_quarter_ = m.current_quarter_
              /\ event_log_ = m.event_log_
    /\ calls = <<>>
    /\ rets = <<>>
    /\ pc = "api"
    /\ match_in_progress = TRUE
    /\ choice = 0
    /\ side = "NUL"
    /\ read_failed = FALSE
    /\ eof = FALSE
    /\ stats_team = Team("Hawks")
    /\ stats_line = ""

GoalForHome ==
    /\ CanAct
    /\ SetMatch(goalForHome(Match))
    /\ calls' = Append(calls, Call("goalForHome", "None"))
    /\ UNCHANGED <<rets, mainVars, statsVars>>

GoalForAway ==
    /\ CanAct
    /\ SetMatch(goalForAway(Match))
    /\ calls' = Append(calls, Call("goalForAway", "None"))
    /\ UNCHANGED <<rets, mainVars, statsVars>>

CardForHome ==
    /\ CanAct
    /\ \E type \in CardType :
          /\ SetMatch(cardForHome(Match, type))
          /\ calls' = Append(calls, Call("cardForHome", type))
    /\ UNCHANGED <<rets, mainVars, statsVars>>

CardForAway ==
    /\ CanAct
    /\ \E type \in CardType :
          /\ SetMatch(cardForAway(Match, type))
          /\ calls' = Append(calls, Call("cardForAway", type))
    /\ UNCHANGED <<rets, mainVars, statsVars>>

PenaltyCornerForHome ==
    /\ CanAct
    /\ SetMatch(penaltyCornerForHome(Match))
    /\ calls' = Append(calls, Call("penaltyCornerForHome", "None"))
    /\ UNCHANGED <<rets, mainVars, statsVars>>

PenaltyCornerForAway ==
    /\ CanAct
    /\ SetMatch(penaltyCornerForAway(Match))
    /\ calls' = Append(calls, Call("penaltyCornerForAway", "None"))
    /\ UNCHANGED <<rets, mainVars, statsVars>>

NextQuarter ==
    /\ Len(rets) < MaxQuarterCalls
    /\ LET r == nextQuarter(Match)
       IN  /\ SetMatch(r.match)
           /\ rets' = Append(rets, r.result)
    /\ calls' = Append(calls, Call("nextQuarter", "None"))
    /\ UNCHANGED <<mainVars, statsVars>>

Next ==
    \/ GoalForHome
    \/ GoalForAway
    \/ CardForHome
    \/ CardForAway
    \/ PenaltyCornerForHome
    \/ PenaltyCornerForAway
    \/ NextQuarter

Spec == Init /\ [][Next]_vars

----------------------------------------------------------------------------
(* main(): the command loop.  One action per pass through the loop body,   *)
(* chosen by what std::cin delivers; eof says that the input has ended, so *)
(* that every further read fails.                                          *)

\* the two lines read as team names
NameInputs == {<<"Hawks", "Eagles">>, <<"", "">>}

\* the numbers typed as menu choice; 0 and 10 stand for those outside 1..9
ChoiceInputs == 0..10

\* the characters typed as side; "x" stands for those other than h, H, a, A
SideChars == {"h", "H", "a", "A", "x"}

\* what a char holds when no character was read into it: '\0' when it was
\* initialised (choice 6), anything when it was not (choices 3, 4, 5)
NoChar == "NUL"
Indeterminate == SideChars \cup {NoChar}

DefaultName(name, label) == IF name = "" THEN label ELSE name

\* the kind computed as static_cast<CardType>(choice - 2)
CardTypeOfChoice_cast(c) ==
    IF c = 3 THEN "Yellow" ELSE IF c = 4 THEN "Red" ELSE "Count"

CardTypeOfChoice(c) ==
    IF c = 3 THEN "Green" ELSE IF c = 4 THEN "Yellow" ELSE "Red"

IsHomeSide(s) == s = "h" \/ s = "H"

\* a plain else for the away team
IsAwaySide_else(s) == TRUE

IsAwaySide(s) == s = "a" \/ s = "A"

\* the result of nextQuarter not looked at
KeepPlaying_ignored(in_progress, result) == in_progress

\* match_in_progress after `if (!match.nextQuarter()) match_in_progress = false`
KeepPlaying(in_progress, result) == IF ~result THEN FALSE ELSE in_progress

\* the loop condition without its match_in_progress half
WhileCond_quarterOnly == current_quarter_ <= TOTAL_QUARTERS

WhileCond == match_in_progress /\ current_quarter_ <= TOTAL_QUARTERS

LoopCanAct == Len(TeamCalls) < MaxTeamActions

LoopInit ==
    /\ \E p \in NameInputs :
          LET m == HockeyMatch(DefaultName(p[1], "Home"),
                               DefaultName(p[2], "Away"))
          IN  /\ home_team_ = m.home_team_
              /\ away_team_ = m.away_team_
              /\ current_quarter_ = m.current_quarter_
              /\ event_log_ = m.event_log_
    /\ calls = <<>>
    /\ rets = <<>>
    /\ pc = "loop"
    /\ match_in_progress = TRUE
    /\ choice = 0
    /\ side = NoChar
    /\ read_failed = FALSE
    /\ eof \in BOOLEAN
    /\ stats_team = Team("Hawks")
    /\ stats_line = ""

\* while (match_in_progress && match.quarter() <= TOTAL_QUARTERS)
LoopTest ==
    /\ pc = "loop"
    /\ pc' = IF WhileCond THEN "menu" ELSE "final"
    /\ UNCHANGED <<matchVars, calls, rets, match_in_progress, choice, side,
                   read_failed, eof, statsVars>>

\* !(std::cin >> choice): the input is not a number, or it has ended
ReadChoiceFails ==
    /\ pc = "menu"
    /\ \E end \in BOOLEAN : (eof => end) /\ eof' = end
    /\ choice' = 0
    /\ side' = NoChar
    /\ read_failed' = TRUE
    /\ pc' = "loop"
    /\ UNCHANGED <<matchVars, calls, rets, match_in_progress, statsVars>>

ChooseGoalHome ==
    /\ pc = "menu" /\ ~eof /\ LoopCanAct
    /\ choice' = 1
    /\ SetMatch(goalForHome(Match))
    /\ calls' = Append(calls, Call("goalForHome", "None"))
    /\ side' = NoChar /\ read_failed' = FALSE /\ pc' = "loop"
    /\ UNCHANGED <<rets, match_in_progress, eof, statsVars>>

ChooseGoalAway ==
    /\ pc = "menu" /\ ~eof /\ LoopCanAct
    /\ choice' = 2
    /\ SetMatch(goalForAway(Match))
    /\ calls' = Append(calls, Call("goalForAway", "None"))
    /\ side' = NoChar /\ read_failed' = FALSE /\ pc' = "loop"
    /\ UNCHANGED <<rets, match_in_progress, eof, statsVars>>

\* choices 3, 4, 5: side is not initialised before std::cin >> side
ChooseCard ==
    /\ pc = "menu" /\ ~eof
    /\ \E c \in {3, 4, 5}, end \in BOOLEAN, sd \in Indeterminate :
          /\ ~end => sd \in SideChars
          /\ choice' = c /\ side' = sd /\ eof' = end
          /\ IF IsHomeSide(sd)
             THEN /\ LoopCanAct
                  /\ SetMatch(cardForHome(Match, CardTypeOfChoice(c)))
                  /\ calls' = Append(calls,
                                Call("cardForHome", CardTypeOfChoice(c)))
             ELSE IF IsAwaySide(sd)
             THEN /\ LoopCanAct
                  /\ SetMatch(cardForAway(Match, CardTypeOfChoice(c)))
                  /\ calls' = Append(calls,
                                Call("cardForAway", CardTypeOfChoice(c)))
             ELSE UNCHANGED <<matchVars, calls>>
    /\ read_failed' = FALSE /\ pc' = "loop"
    /\ UNCHANGED <<rets, match_in_progress, statsVars>>

\* choice 6: char side = '\0' before std::cin >> side
ChoosePenaltyCorner ==
    /\ pc = "menu" /\ ~eof
    /\ \E end \in BOOLEAN, sd \in SideChars \cup {NoChar} :
          /\ sd = NoChar <=> end
          /\ side' = sd /\ eof' = end
          /\ IF IsHomeSide(sd)
             THEN /\ LoopCanAct
                  /\ SetMatch(penaltyCornerForHome(Match))
                  /\ calls' = Append(calls,
                                Call("penaltyCornerForHome", "None"))
             ELSE IF IsAwaySide(sd)
             THEN /\ LoopCanAct
                  /\ SetMatch(penaltyCornerForAway(Match))
                  /\ calls' = Append(calls,
                                Call("penaltyCornerForAway", "None"))
             ELSE UNCHANGED <<matchVars, calls>>
    /\ choice' = 6
    /\ read_failed' = FALSE /\ pc' = "loop"
    /\ UNCHANGED <<rets, match_in_progress, statsVars>>

ChooseNextQuarter ==
    /\ pc = "menu" /\ ~eof
    /\ Len(rets) < MaxQuarterCalls
    /\ choice' = 7
    /\ LET r == nextQuarter(Match)
       IN  /\ SetMatch(r.match)
           /\ rets' = Append(rets, r.result)
           /\ match_in_progress' = KeepPlaying(match_in_progress, r.result)
    /\ calls' = Append(calls, Call("nextQuarter", "None"))
    /\ side' = NoChar /\ read_failed' = FALSE /\ pc' = "loop"
    /\ UNCHANGED <<eof, statsVars>>

\* choice 8: printEventLog, then std::cin.get(), which may meet the end
ChooseEventLog ==
    /\ pc = "menu" /\ ~eof
    /\ choice' = 8
    /\ eof' \in BOOLEAN
    /\ side' = NoChar /\ read_failed' = FALSE /\ pc' = "loop"
    /\ UNCHANGED <<matchVars, calls, rets, match_in_progress, statsVars>>

ChooseQuit ==
    /\ pc = "menu" /\ ~eof
    /\ choice' = 9
    /\ match_in_progress' = FALSE
    /\ side' = NoChar /\ read_failed' = FALSE /\ pc' = "loop"
    /\ UNCHANGED <<matchVars, calls, rets, eof, statsVars>>

\* default: a number outside 1..9
ChooseInvalid ==
    /\ pc = "menu" /\ ~eof
    /\ \E c \in ChoiceInputs \ (1..9) : choice' = c
    /\ side' = NoChar /\ read_failed' = FALSE /\ pc' = "loop"
    /\ UNCHANGED <<matchVars, calls, rets, match_in_progress, eof, statsVars>>

\* after the loop: FINAL RESULT, printScoreboard, printEventLog
PrintFinal ==
    /\ pc = "final"
    /\ pc' = "exit"
    /\ UNCHANGED <<matchVars, calls, rets, match_in_progress, choice, side,
                   read_failed, eof, statsVars>>

LoopNext ==
    \/ LoopTest
    \/ ReadChoiceFails
    \/ ChooseGoalHome
    \/ ChooseGoalAway
    \/ ChooseCard
    \/ ChoosePenaltyCorner
    \/ ChooseNextQuarter
    \/ ChooseEventLog
    \/ ChooseQuit
    \/ ChooseInvalid
    \/ PrintFinal

LoopSpec == LoopInit /\ [][LoopNext]_vars

\* a failed read of the choice when the input has ended: it waits for nobody
ReadChoiceAtEnd == ReadChoiceFails /\ eof

\* The program is one thread that runs on: a step that does not wait for
\* the user (the loop test, the read at the end of the input, the final
\* print) is taken whenever it is the next one.  Nothing is assumed about
\* when, or whether, the user types.
LoopFairSpec ==
    /\ LoopSpec
    /\ WF_vars(LoopTest)
    /\ WF_vars(ReadChoiceAtEnd)
    /\ WF_vars(PrintFinal)

----------------------------------------------------------------------------
(* Team::statsLine on a Team whose counters have any values up to MaxCount *)

StatsInit ==
    /\ \E g, gr, y, r, p \in 0..MaxCount :
          stats_team = [name_ |-> "Hawks", goals_ |-> g, green_ |-> gr,
                        yellow_ |-> y, red_ |-> r, penalty_corners_ |-> p]
    /\ stats_line = ""
    /\ LET m == HockeyMatch("Hawks", "Eagles")
       IN  /\ home_team_ = m.home_team_
           /\ away_team_ = m.away_team_
           /\ current_quarter_ = m.current_quarter_
           /\ event_log_ = m.event_log_
    /\ calls = <<>>
    /\ rets = <<>>
    /\ pc = "stats"
    /\ match_in_progress = TRUE
    /\ choice = 0
    /\ side = "NUL"
    /\ read_failed = FALSE
    /\ eof = FALSE

StatsLine ==
    /\ pc = "stats"
    /\ stats_line = ""
    /\ stats_line' = statsLine(stats_team)
    /\ UNCHANGED <<matchVars, calls, rets, mainVars, stats_team>>

StatsNext == StatsLine

StatsSpec == StatsInit /\ [][StatsNext]_vars

----------------------------------------------------------------------------
(* The HockeyMatch of the earlier variants of main.cpp.  Team, MatchEvent, *)
(* log (there the name of addEvent) and the helpers behind goalFor*,       *)
(* cardFor* and penaltyCornerFor* read as in the current file; the         *)
(* constructor logs nothing, CardType has no Count, and nextQuarter is     *)
(* different.                                                              *)

\* enum class CardType { Green, Yellow, Red }
EarlyCardType == {"Green", "Yellow", "Red"}

EarlyHockeyMatch(home_name, away_name) ==
    [home_team_ |-> Team(home_name), away_team_ |-> Team(away_name),
     current_quarter_ |-> 1, event_log_ |-> <<>>]

EarlyNextQuarterOp(m) ==
    IF m.current_quarter_ < 4
    THEN LET m1 == [m EXCEPT !.current_quarter_ = @ + 1]
             m2 == addEvent(m1, "=== End of Q"
                            \o to_string(m1.current_quarter_ - 1) \o " ===")
         IN  [match |-> m2, result |-> TRUE]
    ELSE [match |-> m, result |-> FALSE]

EarlyInit ==
    /\ \E p \in NamePairs :
          LET m == EarlyHockeyMatch(p[1], p[2])
          IN  /\ home_team_ = m.home_team_
              /\ away_team_ = m.away_team_
              /\ current_quarter_ = m.current_quarter_
              /\ event_log_ = m.event_log_
    /\ calls = <<>>
    /\ rets = <<>>
    /\ pc = "early"
    /\ match_in_progress = TRUE
    /\ choice = 0
    /\ side = "NUL"
    /\ read_failed = FALSE
    /\ eof = FALSE
    /\ stats_team = Team("Hawks")
    /\ stats_line = ""

EarlyGoalForHome ==
    /\ pc = "early" /\ CanAct
    /\ SetMatch(scoreGoalFor(Match, "home_team_"))
    /\ calls' = Append(calls, Call("goalForHome", "None"))
    /\ UNCHANGED <<rets, mainVars, statsVars>>

EarlyGoalForAway ==
    /\ pc = "early" /\ CanAct
    /\ SetMatch(scoreGoalFor(Match, "away_team_"))
    /\ calls' = Append(calls, Call("goalForAway", "None"))
    /\ UNCHANGED <<rets, mainVars, statsVars>>

EarlyCardForHome ==
    /\ pc = "early" /\ CanAct
    /\ \E type \in EarlyCardType :
          /\ SetMatch(showCardFor(Match, "home_team_", type))
          /\ calls' = Append(calls, Call("cardForHome", type))
    /\ UNCHANGED <<rets, mainVars, statsVars>>

EarlyCardForAway ==
    /\ pc = "early" /\ CanAct
    /\ \E type \in EarlyCardType :
          /\ SetMatch(showCardFor(Match, "away_team_", type))
          /\ calls' = Append(calls, Call("cardForAway", type))
    /\ UNCHANGED <<rets, mainVars, statsVars>>

EarlyPenaltyCornerForHome ==
    /\ pc = "early" /\ CanAct
    /\ SetMatch(awardPenaltyCornerFor(Match, "home_team_"))
    /\ calls' = Append(calls, Call("penaltyCornerForHome", "None"))
    /\ UNCHANGED <<rets, mainVars, statsVars>>

EarlyPenaltyCornerForAway ==
    /\ pc = "early" /\ CanAct
    /\ SetMatch(awardPenaltyCornerFor(Match, "away_team_"))
    /\ calls' = Append(calls, Call("penaltyCornerForAway", "None"))
    /\ UNCHANGED <<rets, mainVars, statsVars>>

EarlyNextQuarter ==
    /\ pc = "early"
    /\ Len(rets) < MaxQuarterCalls
    /\ LET r == EarlyNextQuarterOp(Match)
       IN  /\ SetMatch(r.match)
           /\ rets' = Append(rets, r.result)
    /\ calls' = Append(calls, Call("nextQuarter", "None"))
    /\ UNCHANGED <<mainVars, statsVars>>

EarlyNext ==
    \/ EarlyGoalForHome
    \/ EarlyGoalForAway
    \/ EarlyCardForHome
    \/ EarlyCardForAway
    \/ EarlyPenaltyCornerForHome
    \/ EarlyPenaltyCornerForAway
    \/ EarlyNextQuarter

EarlySpec == EarlyInit /\ [][EarlyNext]_vars

----------------------------------------------------------------------------
(* Vocabulary of the properties *)

StartMarker == <<"=== Start of Q1 ===", "=== Start of Q2 ===",
                 "=== Start of Q3 ===", "=== Start of Q4 ===">>

EndMarker == <<"=== End of Q1 ===", "=== End of Q2 ===",
               "=== End of Q3 ===", "=== End of Q4 ===">>

Markers == {StartMarker[n] : n \in 1..4} \cup {EndMarker[n] : n \in 1..4}

\* number of events of the log with the given description
Count(description) ==
    Len(SelectSeq(event_log_, LAMBDA e : e.description_ = description))

\* number of calls of the given operation made so far
CallsOf(op) == Len(SelectSeq(calls, LAMBDA c : c.op = op))

ReturnedFalse == \E i \in 1..Len(rets) : rets[i] = FALSE

\* the step is a call; InvokedOp is the operation it invoked
IsCall == Len(calls') = Len(calls) + 1
InvokedOp == calls'[Len(calls')].op
Returned == rets'[Len(rets')]

IsPrefix(s, t) == Len(s) <= Len(t) /\ \A i \in 1..Len(s) : s[i] = t[i]

Counters == {"goals_", "green_", "yellow_", "red_", "penalty_corners_"}

InvokedType == calls'[Len(calls')].type

CardOps == {"cardForHome", "cardForAway"}
HomeOps == {"goalForHome", "cardForHome", "penaltyCornerForHome"}
ValidKinds == {"Green", "Yellow", "Red"}

\* the team a call names, and the other one
Target(op) == IF op \in HomeOps THEN home_team_ ELSE away_team_
Other(op) == IF op \in HomeOps THEN away_team_ ELSE home_team_
TargetAfter(op) == IF op \in HomeOps THEN home_team_' ELSE away_team_'
OtherAfter(op) == IF op \in HomeOps THEN away_team_' ELSE home_team_'

\* the counter a call is to increment ("none": CardType::Count has no counter)
CounterOf(op, type) ==
    CASE op \in {"goalForHome", "goalForAway"} -> "goals_"
      [] op \in {"penaltyCornerForHome", "penaltyCornerForAway"}
            -> "penalty_corners_"
      [] op \in CardOps /\ type = "Green"  -> "green_"
      [] op \in CardOps /\ type = "Yellow" -> "yellow_"
      [] op \in CardOps /\ type = "Red"    -> "red_"
      [] OTHER -> "none"

\* the description the interface documents for the event of a team call
KindText(type) ==
    CASE type = "Green" -> "Green" [] type = "Yellow" -> "Yellow"
      [] type = "Red" -> "Red" [] OTHER -> "Unknown"

ExpectedText(c) ==
    LET name == IF c.op \in HomeOps THEN home_team_.name_
                                    ELSE away_team_.name_
    IN  CASE c.op \in {"goalForHome", "goalForAway"} -> name \o " goal!"
          [] c.op \in CardOps -> KindText(c.type) \o " card - " \o name
          [] OTHER -> "Penalty corner - " \o name

\* number of calls made that are to increment counter c of the home/away team
Expected(home, c) ==
    Len(SelectSeq(calls, LAMBDA k : /\ k.op \in TeamOps
                                    /\ (k.op \in HomeOps) = home
                                    /\ CounterOf(k.op, k.type) = c))

Descriptions == [i \in 1..Len(event_log_) |-> event_log_[i].description_]

----------------------------------------------------------------------------
(* C1: once nextQuarter has returned false, every later nextQuarter call   *)
(* returns false and is a no-op: no event appended, quarter and both       *)
(* teams' counters unchanged.                                              *)
C1_FinishedIsNoOp ==
    [][(IsCall /\ InvokedOp = "nextQuarter" /\ ReturnedFalse)
         => (Returned = FALSE /\ UNCHANGED matchVars)]_vars

(* C2: the first four nextQuarter calls return true, true, true, false and *)
(* the quarter reads 2, 3, 4 after the first, second, third call, whatever *)
(* team actions are interleaved.                                           *)
C2_FirstFourCalls ==
    /\ \A i \in 1..Len(rets) : i <= 4 => rets[i] = (i < 4)
    /\ \A k \in 1..3 : Len(rets) = k => current_quarter_ = k + 1

C2_Witness ==
    /\ Len(rets) = 4
    /\ \E i, j, k \in 1..Len(calls) :
          /\ i < j /\ j < k
          /\ calls[i].op = "nextQuarter"
          /\ calls[j].op \in TeamOps
          /\ calls[k].op = "nextQuarter"

(* C3: the log holds at most one "End of Qn" for each n in 1..4, exactly   *)
(* one "Start of Qn" for each n in 2..quarter() and none for n > quarter().*)
C3_OneMarkerPerQuarter ==
    /\ \A n \in 1..4 : Count(EndMarker[n]) <= 1
    /\ \A n \in 2..4 :
          Count(StartMarker[n]) = IF n <= current_quarter_ THEN 1 ELSE 0

(* C4: the quarter starts at 1, never decreases, increases by exactly 1 on *)
(* every nextQuarter call that returns true, and is unchanged by every     *)
(* nextQuarter call that returns false and by every team action.           *)
C4_QuarterSteps ==
    /\ current_quarter_ = 1
    /\ [][/\ current_quarter_' >= current_quarter_
          /\ (IsCall /\ InvokedOp = "nextQuarter" /\ Returned = TRUE)
                => current_quarter_' = current_quarter_ + 1
          /\ (IsCall /\ InvokedOp = "nextQuarter" /\ Returned = FALSE)
                => current_quarter_' = current_quarter_
          /\ (IsCall /\ InvokedOp \in TeamOps)
                => current_quarter_' = current_quarter_]_vars

C4_Witness ==
    /\ current_quarter_ = 4
    /\ ReturnedFalse
    /\ Len(TeamCalls) > 0

(* C5: all five counters of both teams are zero initially and none of them *)
(* ever decreases in any step.                                             *)
C5_CountersMonotone ==
    /\ \A c \in Counters : home_team_[c] = 0 /\ away_team_[c] = 0
    /\ [][\A c \in Counters : /\ home_team_'[c] >= home_team_[c]
                              /\ away_team_'[c] >= away_team_[c]]_vars

C5_Witness ==
    /\ home_team_.goals_ = 1
    /\ away_team_.yellow_ = 1
    /\ current_quarter_ > 1

(* C6: every logged event has a quarter field in 1..4; "End of Qn" and     *)
(* "Start of Qn" carry n; the event a team action appends carries the      *)
(* value quarter() had when the action was invoked.                        *)
C6_QuarterField ==
    /\ [](\A i \in 1..Len(event_log_) :
            /\ event_log_[i].quarter_ \in 1..4
            /\ \A n \in 1..4 :
                  event_log_[i].description_ \in {StartMarker[n], EndMarker[n]}
                     => event_log_[i].quarter_ = n)
    /\ [][(IsCall /\ InvokedOp \in TeamOps)
            => /\ Len(event_log_') = Len(event_log_) + 1
               /\ event_log_'[Len(event_log_')].quarter_ = current_quarter_
               /\ event_log_'[Len(event_log_')].description_ \notin Markers
         ]_vars

C6_Witness ==
    /\ \E i \in 1..Len(event_log_) :
          /\ event_log_[i].description_ = EndMarker[4]
          /\ event_log_[i].quarter_ = 4
    /\ \E i \in 1..Len(event_log_) :
          /\ event_log_[i].description_ \notin Markers
          /\ event_log_[i].quarter_ = 3

(* C7: the log is append-only: every action keeps the previous log as a    *)
(* prefix of the new one and appends at least one event, so the events     *)
(* stand in the order of the calls.                                        *)
C7_AppendOnly ==
    [][/\ IsPrefix(event_log_, event_log_')
       /\ Len(event_log_') > Len(event_log_)]_vars

C7_Witness ==
    /\ Len(event_log_) >= 6
    /\ event_log_[2].description_ \notin Markers
    /\ event_log_[Len(event_log_)].description_ \notin Markers

(* C8: the log is never empty, its first element is the "Start of Q1"      *)
(* marker with quarter field 1, and that marker occurs exactly once.       *)
C8_StartOfQ1First ==
    /\ Len(event_log_) >= 1
    /\ event_log_[1] = [quarter_ |-> 1, description_ |-> "=== Start of Q1 ==="]
    /\ Count("=== Start of Q1 ===") = 1

C8_Witness ==
    /\ Len(rets) = 5
    /\ Len(TeamCalls) = 2

(* C9: the log holds an "End of Qn" marker for every n < quarter(), and an *)
(* "End of Q4" marker whenever nextQuarter has returned false.             *)
C9_ElapsedQuartersEnded ==
    /\ \A n \in 1..4 : n < current_quarter_ => Count(EndMarker[n]) >= 1
    /\ ReturnedFalse => Count(EndMarker[4]) >= 1

C9_Witness ==
    /\ ReturnedFalse
    /\ Len(rets) = 4
    /\ Len(TeamCalls) = 0

(* C10: after n goalForHome calls, with nextQuarter calls but no other     *)
(* team action, home().goals() = n and the log holds exactly n             *)
(* "<home name> goal!" events and otherwise only quarter markers; the same *)
(* for goalForAway and the away team.                                      *)
C10_GoalsCounted ==
    /\ (\A i \in 1..Len(calls) : calls[i].op \in {"goalForHome", "nextQuarter"})
         => /\ home_team_.goals_ = CallsOf("goalForHome")
            /\ Count(home_team_.name_ \o " goal!") = CallsOf("goalForHome")
            /\ \A i \in 1..Len(event_log_) :
                  event_log_[i].description_
                     \in Markers \cup {home_team_.name_ \o " goal!"}
    /\ (\A i \in 1..Len(calls) : calls[i].op \in {"goalForAway", "nextQuarter"})
         => /\ away_team_.goals_ = CallsOf("goalForAway")
            /\ Count(away_team_.name_ \o " goal!") = CallsOf("goalForAway")
            /\ \A i \in 1..Len(event_log_) :
                  event_log_[i].description_
                     \in Markers \cup {away_team_.name_ \o " goal!"}

C10_Witness ==
    /\ CallsOf("goalForHome") = 2
    /\ CallsOf("nextQuarter") >= 1
    /\ Len(calls) = CallsOf("goalForHome") + CallsOf("nextQuarter")
    /\ home_team_.goals_ = 2

(* C11: a cardForHome/cardForAway call with kind Green, Yellow or Red      *)
(* increments the counter of that kind on the named team by exactly 1 and  *)
(* leaves that team's other card counters, goals and penalty corners       *)
(* unchanged; one such call from the initial state gives 1 for that kind   *)
(* and 0 for the other two.                                                *)
C11_CardCountsItsKind ==
    /\ [][(IsCall /\ InvokedOp \in CardOps /\ InvokedType \in ValidKinds)
            => \A c \in Counters :
                  TargetAfter(InvokedOp)[c] =
                     IF c = CounterOf(InvokedOp, InvokedType)
                     THEN Target(InvokedOp)[c] + 1
                     ELSE Target(InvokedOp)[c]]_vars
    /\ []((Len(calls) = 1 /\ calls[1].op \in CardOps
                          /\ calls[1].type \in ValidKinds)
            => LET t == IF calls[1].op = "cardForHome" THEN home_team_
                                                       ELSE away_team_
               IN  \A c \in {"green_", "yellow_", "red_"} :
                      t[c] = IF c = CounterOf(calls[1].op, calls[1].type)
                             THEN 1 ELSE 0)

C11_Witness ==
    /\ home_team_.green_ = 1
    /\ home_team_.red_ = 1
    /\ home_team_.yellow_ = 0
    /\ away_team_.yellow_ = 1

(* C12: a team action leaves every counter of the other side and the       *)
(* quarter unchanged and appends exactly one event; a goal changes only    *)
(* the goals of its team, a penalty corner only its penalty-corner count;  *)
(* nextQuarter changes no counter of either team.                          *)
C12_ActionsTouchOnlyTheirTarget ==
    [][/\ (IsCall /\ InvokedOp \in TeamOps)
            => /\ OtherAfter(InvokedOp) = Other(InvokedOp)
               /\ current_quarter_' = current_quarter_
               /\ Len(event_log_') = Len(event_log_) + 1
               /\ IsPrefix(event_log_, event_log_')
       /\ (IsCall /\ InvokedOp \in TeamOps \ CardOps)
            => \A c \in Counters :
                  TargetAfter(InvokedOp)[c] =
                     IF c = CounterOf(InvokedOp, InvokedType)
                     THEN Target(InvokedOp)[c] + 1
                     ELSE Target(InvokedOp)[c]
       /\ (IsCall /\ InvokedOp = "nextQuarter")
            => home_team_' = home_team_ /\ away_team_' = away_team_]_vars

C12_Witness ==
    /\ away_team_.goals_ = 1
    /\ home_team_.penalty_corners_ = 1
    /\ home_team_.goals_ = 0
    /\ away_team_.penalty_corners_ = 0
    /\ current_quarter_ = 2

(* C13: a cardForHome/cardForAway call with a kind outside Green, Yellow,  *)
(* Red (CardType::Count) does not return normally: no counter changes and  *)
(* no card event is appended to the log.                                   *)
C13_InvalidKindRejected ==
    [][(IsCall /\ InvokedOp \in CardOps /\ InvokedType \notin ValidKinds)
         => UNCHANGED matchVars]_vars

(* C17: after any team actions made in quarter 1 followed by four          *)
(* nextQuarter calls, every counter equals the number of actions of its    *)
(* kind for its team and the log is: Start of Q1, the action events in the *)
(* order of the calls, End of Q1, Start of Q2, End of Q2, Start of Q3,     *)
(* End of Q3, Start of Q4, End of Q4.                                      *)
C17_WholeMatchScenario ==
    LET k == Len(calls) - 4
    IN  (/\ k >= 0
         /\ \A i \in 1..k : calls[i].op \in TeamOps
         /\ \A i \in (k + 1)..(k + 4) : calls[i].op = "nextQuarter")
        => /\ \A c \in Counters : /\ home_team_[c] = Expected(TRUE, c)
                                  /\ away_team_[c] = Expected(FALSE, c)
           /\ Descriptions =
                 <<StartMarker[1]>>
                    \o [i \in 1..k |-> ExpectedText(calls[i])]
                    \o <<EndMarker[1], StartMarker[2], EndMarker[2],
                         StartMarker[3], EndMarker[3], StartMarker[4],
                         EndMarker[4]>>

C17_Witness ==
    /\ calls = <<Call("goalForHome", "None"), Call("goalForHome", "None"),
                 Call("cardForAway", "Yellow"), Call("nextQuarter", "None"),
                 Call("nextQuarter", "None"), Call("nextQuarter", "None"),
                 Call("nextQuarter", "None")>>
    /\ home_team_.goals_ = 2
    /\ away_team_.yellow_ = 1
    /\ Len(event_log_) = 11

(* C19: a nextQuarter call at quarter n < 4 appends "End of Qn" with       *)
(* quarter field n and then "Start of Q(n+1)" with quarter field n+1, so   *)
(* in every log each "End of Qn", n < 4, is immediately followed by        *)
(* "Start of Q(n+1)"; a call at quarter 4 appends only "End of Q4", and no *)
(* "Start of Q5" is ever logged.                                           *)
C19_EndThenStart ==
    /\ [](/\ \A i \in 1..Len(event_log_) : \A n \in 1..3 :
                event_log_[i].description_ = EndMarker[n]
                   => /\ i < Len(event_log_)
                      /\ event_log_[i] = MatchEvent(n, EndMarker[n])
                      /\ event_log_[i + 1] =
                            MatchEvent(n + 1, StartMarker[n + 1])
          /\ Count("=== Start of Q5 ===") = 0)
    /\ [][(IsCall /\ InvokedOp = "nextQuarter")
            => event_log_' = event_log_ \o
                 (IF current_quarter_ < 4
                  THEN <<MatchEvent(current_quarter_,
                                    EndMarker[current_quarter_]),
                         MatchEvent(current_quarter_ + 1,
                                    StartMarker[current_quarter_ + 1])>>
                  ELSE <<MatchEvent(4, EndMarker[4])>>)]_vars

C19_Witness ==
    /\ Count(EndMarker[4]) >= 1
    /\ \E i \in 1..Len(event_log_) :
          /\ event_log_[i].description_ = StartMarker[3]
          /\ i < Len(event_log_)
          /\ event_log_[i + 1].description_ \notin Markers

(* C20: goal, card and penalty-corner calls are never rejected: in every   *)
(* state, also after nextQuarter has returned false, such a call appends   *)
(* exactly one event whose quarter field is the current quarter (4 once    *)
(* the match is over) and increments by 1 the counter it names.            *)
C20_TeamActionsNeverRejected ==
    [][(IsCall /\ InvokedOp \in TeamOps)
         => /\ Len(event_log_') = Len(event_log_) + 1
            /\ event_log_'[Len(event_log_')].quarter_ = current_quarter_
            /\ event_log_'[Len(event_log_')].description_ \notin Markers
            /\ ReturnedFalse => event_log_'[Len(event_log_')].quarter_ = 4
            /\ CounterOf(InvokedOp, InvokedType) # "none"
                 => TargetAfter(InvokedOp)[CounterOf(InvokedOp, InvokedType)]
                       = Target(InvokedOp)[CounterOf(InvokedOp, InvokedType)]
                            + 1]_vars

C20_Witness ==
    /\ ReturnedFalse
    /\ \E i, j \in 1..Len(event_log_) :
          /\ i < j
          /\ event_log_[i].description_ = EndMarker[4]
          /\ event_log_[j].description_ = "Penalty corner - Eagles"
          /\ event_log_[j].quarter_ = 4
    /\ away_team_.penalty_corners_ = 1

(* C18: statsLine renders green, yellow, red and penalty corners in that   *)
(* order as decimal numbers followed by the tokens G, Y, R, PC, separated  *)
(* by single spaces, for all counter values; green=2, yellow=1, red=0,     *)
(* penalty corners=3 gives exactly "2G 1Y 0R 3PC"; the goal count is not   *)
(* part of the line.                                                       *)
Decimal == <<"0", "1", "2", "3", "4", "5", "6", "7", "8", "9">>

C18_StatsLineFormat ==
    stats_line # ""
       => /\ stats_line =
                Decimal[stats_team.green_ + 1] \o "G "
                   \o Decimal[stats_team.yellow_ + 1] \o "Y "
                   \o Decimal[stats_team.red_ + 1] \o "R "
                   \o Decimal[stats_team.penalty_corners_ + 1] \o "PC"
          /\ (/\ stats_team.green_ = 2 /\ stats_team.yellow_ = 1
              /\ stats_team.red_ = 0 /\ stats_team.penalty_corners_ = 3)
                => stats_line = "2G 1Y 0R 3PC"

C18_Witness ==
    /\ stats_line = "2G 1Y 0R 3PC"
    /\ stats_team.goals_ = 3
    /\ stats_team.green_ = 2
    /\ stats_team.penalty_corners_ = 3

(* C14: in the command loop the kind passed to cardForHome/cardForAway is  *)
(* Green for choice 3, Yellow for choice 4 and Red for choice 5, so no     *)
(* call is ever made with a kind outside Green, Yellow, Red and no         *)
(* "Unknown card" event is ever logged.                                    *)
C14_LoopPassesValidKinds ==
    /\ [][(IsCall /\ InvokedOp \in CardOps)
            => /\ choice' \in {3, 4, 5}
               /\ choice' = 3 => InvokedType = "Green"
               /\ choice' = 4 => InvokedType = "Yellow"
               /\ choice' = 5 => InvokedType = "Red"]_vars
    /\ [](/\ \A i \in 1..Len(calls) :
                calls[i].op \in CardOps => calls[i].type \in ValidKinds
          /\ Count("Unknown card - " \o home_team_.name_) = 0
          /\ Count("Unknown card - " \o away_team_.name_) = 0)

C14_Witness ==
    /\ pc = "loop"
    /\ \E i, j \in 1..Len(calls) :
          /\ calls[i] = Call("cardForHome", "Red")
          /\ calls[j] = Call("cardForAway", "Green")
    /\ Count("Red card - Hawks") = 1

(* C15: in the command loop a pass whose input is in error (the choice is  *)
(* not a number, the number is outside 1..9, or the side typed for choice  *)
(* 3, 4, 5 or 6 is not h, H, a or A) invokes no Match action, leaves both  *)
(* teams, the quarter and the log as they were, and the loop goes on to    *)
(* the next prompt.                                                        *)
C15_InputErrorsChangeNothing ==
    [][(/\ pc = "menu"
        /\ \/ read_failed'
           \/ choice' \notin 1..9
           \/ choice' \in 3..6 /\ side' \notin {"h", "H", "a", "A"})
         => /\ UNCHANGED matchVars
            /\ calls' = calls
            /\ match_in_progress' = match_in_progress
            /\ pc' = "loop"
            /\ match_in_progress' /\ current_quarter_' <= 4]_vars

C15_Witness ==
    /\ pc = "loop"
    /\ choice = 6
    /\ side = "x"
    /\ ~read_failed
    /\ current_quarter_ = 2
    /\ Len(TeamCalls) = 1

(* C16: in the command loop choice 7 ends the loop exactly when            *)
(* nextQuarter returns false, which is exactly the choice 7 made at        *)
(* quarter 4; at quarters 1, 2, 3 it advances the quarter and the loop     *)
(* goes on.  After four choices of 7 the loop has ended.                   *)
C16_SevenEndsAtQuarterFour ==
    /\ [][(pc = "menu" /\ choice' = 7)
            => /\ IsCall /\ InvokedOp = "nextQuarter"
               /\ (match_in_progress' = FALSE) <=> (Returned = FALSE)
               /\ (Returned = FALSE) <=> (current_quarter_ = 4)
               /\ current_quarter_ < 4
                    => /\ current_quarter_' = current_quarter_ + 1
                       /\ match_in_progress'
                       /\ current_quarter_' <= 4]_vars
    /\ [][(pc = "loop" /\ pc' # pc)
            => pc' = IF Len(rets) = 4 THEN "final"
                     ELSE IF match_in_progress THEN "menu" ELSE "final"]_vars
    /\ [](Len(rets) >= 4
            => Len(rets) = 4 /\ ~match_in_progress /\ pc # "menu")

C16_Witness ==
    /\ pc = "exit"
    /\ Len(rets) = 4
    /\ ~match_in_progress
    /\ choice = 7
    /\ Len(TeamCalls) >= 1

(* C21: in the earlier variants the "End of Qn" event appended by          *)
(* nextQuarter carries the quarter field n, the quarter current when       *)
(* nextQuarter was invoked.                                                *)
C21_EarlyEndCarriesItsQuarter ==
    \A i \in 1..Len(event_log_) : \A n \in 1..4 :
       event_log_[i].description_ = EndMarker[n]
          => event_log_[i].quarter_ = n

(* C22: in the earlier variants, once nextQuarter has returned false the   *)
(* log holds an "End of Qn" marker for every n in 1..4, "End of Q4"        *)
(* included.                                                               *)
C22_EarlyAllQuartersEnded ==
    ReturnedFalse => \A n \in 1..4 : Count(EndMarker[n]) >= 1

(* C23: in main.cpp the quarter is in 1..4 in every reachable state, so    *)
(* the `current_quarter_ > TOTAL_QUARTERS` early return of nextQuarter is  *)
(* never taken (every nextQuarter call goes on to append an event), the    *)
(* quarter half of the loop condition is never false, and the command     *)
(* loop is left only with match_in_progress false.                         *)
C23_QuarterStaysInRange ==
    /\ [](current_quarter_ \in 1..TOTAL_QUARTERS)
    /\ [][(IsCall /\ InvokedOp = "nextQuarter")
            => /\ ~(current_quarter_ > TOTAL_QUARTERS)
               /\ Len(event_log_') > Len(event_log_)]_vars
    /\ [][(pc = "loop" /\ pc' = "final")
            => /\ ~match_in_progress
               /\ current_quarter_ <= TOTAL_QUARTERS]_vars
    /\ [](pc \in {"final", "exit"} => ~match_in_progress)

C23_Witness ==
    /\ pc = "final"
    /\ current_quarter_ = TOTAL_QUARTERS
    /\ ReturnedFalse
    /\ Len(rets) = MaxQuarterCalls - 1
    /\ ~match_in_progress

\* the (team, counter) pairs of a match, and the description of the event
\* that is logged when that counter of that team is incremented
Slots == {"home_team_", "away_team_"} \X Counters

EventText(slot) ==
    LET name == Match[slot[1]].name_
    IN  CASE slot[2] = "goals_"  -> name \o " goal!"
          [] slot[2] = "green_"  -> "Green card - " \o name
          [] slot[2] = "yellow_" -> "Yellow card - " \o name
          [] slot[2] = "red_"    -> "Red card - " \o name
          [] OTHER               -> "Penalty corner - " \o name

CounterAt(slot) == Match[slot[1]][slot[2]]

RECURSIVE SumOfCounters(_)

SumOfCounters(S) ==
    IF S = {} THEN 0
    ELSE LET x == CHOOSE y \in S : TRUE
         IN  CounterAt(x) + SumOfCounters(S \ {x})

\* the (team, counter) pairs whose event is logged under the same text
SameText(slot) == {t \in Slots : EventText(t) = EventText(slot)}

\* the text logged for a card of a kind outside Green, Yellow, Red, and the
\* number of such cards shown so far to either team under the given text
UnknownText(team) == "Unknown card - " \o Match[team].name_

UnknownCardsUnder(text) ==
    Len(SelectSeq(calls, LAMBDA k :
          /\ k.op \in CardOps
          /\ k.type \notin ValidKinds
          /\ text = UnknownText(IF k.op \in HomeOps THEN "home_team_"
                                                    ELSE "away_team_")))

\* no event text of one team is an event text of the other
TextsDiffer ==
    /\ \A t, u \in Slots : t # u => EventText(t) # EventText(u)
    /\ \A t \in Slots : \A team \in {"home_team_", "away_team_"} :
          EventText(t) # UnknownText(team)

C25_NothingAfterExit ==
    /\ [][(match_in_progress /\ ~match_in_progress')
            => \/ choice' = 9
               \/ choice' = 7 /\ current_quarter_ = TOTAL_QUARTERS]_vars
    /\ [][~match_in_progress
            => /\ ~match_in_progress'
               /\ ~IsCall
               /\ UNCHANGED <<matchVars, calls, rets>>]_vars
    /\ [][(pc \in {"final", "exit"})
            => /\ pc' \in {"final", "exit"}
               /\ UNCHANGED <<matchVars, calls, rets>>]_vars
    /\ [](\A i \in 1..Len(event_log_) :
             event_log_[i].description_ = EndMarker[TOTAL_QUARTERS]
                => i = Len(event_log_))

C25_Witness ==
    /\ pc = "exit"
    /\ choice = 9
    /\ ~match_in_progress
    /\ current_quarter_ = 2
    /\ Len(TeamCalls) >= 1

(* C26: the session loop always ends and the FINAL RESULT is printed; in   *)
(* particular once the input has ended (every further read of the choice   *)
(* fails) the program goes on to leave the loop and print the result.      *)
C26_EndOfInputEndsSession == eof ~> (pc = "exit")

====
